---- MODULE Spec2Model ----
(***************************************************************************)
(* State-machine model of bot_uid_manager.py: the uids table, the          *)
(* per-(chat,user) state of the save conversation, and one action per      *)
(* registered handler.  Every action is one whole handler run, dispatched  *)
(* the way main() registers the handlers.  `last' records what the most    *)
(* recent handler run did (replies, files, connections, statements,        *)
(* commits, extraction attempts, exception); `highId' is the largest id    *)
(* any row of the table has had.  `net' says whether the Bot API can be    *)
(* reached, `open' counts the sqlite3 connections that are open, and `pc'  *)
(* is where the handler run that is suspended on a Graph API call stands   *)
(* ("idle" when no handler is running); `calls' counts, per chat, the      *)
(* save_uid_to_db calls of the runs that are followed call by call.        *)
(*                                                                         *)
(* Text is a sequence of atoms.  An atom is one character ("a", "b", " ",  *)
(* "|") or one whole whitespace-free substring (a URL, a fixed phrase).    *)
(***************************************************************************)
EXTENDS Integers, Sequences, FiniteSets, TLC

VARIABLES uids, conv, fbToken, highId, last, net, open, pc, calls

vars == <<uids, conv, fbToken, highId, last, net, open, pc, calls>>

(* ---------------- bounds ---------------- *)
MaxRows == 2
MaxLen == 2
MaxLinks == 2
MaxCalls == 2

(* ---------------- configuration and input alphabets ---------------- *)
Chats == {100, 200}
Users == {1, 2}
ADMINS == {1}

\* States of the save conversation; END is "no conversation running".
SAVE_SINGLE == "SAVE_SINGLE"
END == "END"
FindLimit == 50

UrlA == "https://facebook.com/a"
UrlX == "https://facebook.com/?x"
Urls == {UrlA, UrlX}
Space == " "
Pipe == "|"
Chars == {"a", Space, Pipe}

None == <<"None">>

RECURSIVE SeqsUpTo(_, _)
SeqsUpTo(S, n) ==
    IF n = 0 THEN {<<>>}
    ELSE LET shorter == SeqsUpTo(S, n - 1)
         IN  shorter \cup {Append(s, x) : s \in {t \in shorter : Len(t) = n - 1}, x \in S}

RECURSIVE Join(_, _)
Join(sep, parts) ==
    IF parts = <<>> THEN <<>>
    ELSE IF Len(parts) = 1 THEN parts[1]
    ELSE parts[1] \o <<sep>> \o Join(sep, Tail(parts))

\* Plain texts: every non-empty string over Chars of length <= MaxLen.
PlainTexts == {t \in SeqsUpTo(Chars, MaxLen) : Len(t) > 0}

\* Link texts: up to MaxLinks URLs separated by single spaces, and one with a
\* word in front.  A URL atom stands for a complete match of [^\s]+, so it is
\* always followed by whitespace or by the end of the text.
LinkTexts ==
    LET lists == {l \in SeqsUpTo(Urls, MaxLinks) : Len(l) > 0}
    IN  {Join(Space, [i \in 1..Len(l) |-> <<l[i]>>]) : l \in lists}
        \cup {<<"a", Space, UrlA>>}

MsgTexts == PlainTexts \cup LinkTexts

Tokens == {<<"a">>, <<"b">>}
ArgLists == {<<>>} \cup {<<t>> : t \in Tokens} \cup {<<<<"a">>, <<"b">>>>}
MenuData == {"menu_save", "menu_export", "menu_find", "menu_delete",
             "menu_thongke", "menu_settings", "menu_help"}

(* ---------------- text helpers (str methods used by the handlers) -------- *)
RECURSIVE LStrip(_)
LStrip(t) == IF t # <<>> /\ Head(t) = Space THEN LStrip(Tail(t)) ELSE t

RECURSIVE RStrip(_)
RStrip(t) ==
    IF t # <<>> /\ t[Len(t)] = Space THEN RStrip(SubSeq(t, 1, Len(t) - 1)) ELSE t

Strip(t) == RStrip(LStrip(t))

Has(t, ch) == \E i \in 1..Len(t) : t[i] = ch

FirstIndex(t, ch) == CHOOSE i \in 1..Len(t) : t[i] = ch /\ \A j \in 1..(i - 1) : t[j] # ch

\* text.split('|', 1) for a text that contains '|'
SplitFirst(t, ch) ==
    LET i == FirstIndex(t, ch)
    IN  <<SubSeq(t, 1, i - 1), SubSeq(t, i + 1, Len(t))>>

\* x LIKE '%q%'.  The alphabet has no upper-case letter and no LIKE wildcard,
\* so the match is plain substring containment.
Like(x, q) ==
    \E i \in 1..(Len(x) + 1) :
        /\ i + Len(q) - 1 <= Len(x)
        /\ SubSeq(x, i, i + Len(q) - 1) = q

Truthy(x) == x # None /\ x # <<>>


(* ---------------- the uids table (init_db) ---------------- *)
\* A row of the table "uids": id INTEGER PRIMARY KEY, uid, note, chat_id, saved_at.
Row(id, uid, note, chat, at) ==
    [id |-> id, uid |-> uid, note |-> note, chat_id |-> chat, saved_at |-> at]

Ids(db) == {r.id : r \in db}

MaxOf(S) == IF S = {} THEN 0 ELSE CHOOSE m \in S : \A x \in S : x <= m

\* id INTEGER PRIMARY KEY without AUTOINCREMENT: an INSERT that gives no id gets
\* the largest rowid now in the table plus one.
NextRowidCount(db) == Cardinality(db) + 1
NextRowid(db) == MaxOf(Ids(db)) + 1

\* Rows in rowid order, the order a SELECT without ORDER BY scans this table in.
RECURSIVE ById(_)
ById(rows) ==
    IF rows = {} THEN <<>>
    ELSE LET r == CHOOSE x \in rows : \A y \in rows : x.id <= y.id
         IN  <<r>> \o ById(rows \ {r})

Limit(seq, n) == IF Len(seq) <= n THEN seq ELSE SubSeq(seq, 1, n)

Range(seq) == {seq[i] : i \in 1..Len(seq)}

(* ---------------- SQL statements ---------------- *)
DeleteRowsAnyChat(db, chat, uid) == {r \in db : r.uid = uid}

\* INSERT INTO uids (uid, note, chat_id, saved_at) VALUES (?, ?, ?, ?)
InsertRow(db, chat, uid, note, now) ==
    db \cup {Row(NextRowid(db), uid, note, chat, now)}

\* SELECT ... WHERE chat_id = ? AND (uid LIKE ? OR note LIKE ?) LIMIT 50
FindRows(db, chat, q) ==
    Limit(ById({r \in db : r.chat_id = chat /\ (Like(r.uid, q) \/ Like(r.note, q))}),
          FindLimit)

\* SELECT COUNT(*) ... WHERE chat_id = ? AND uid = ?   (the rows counted)
CheckRows(db, chat, uid) == {r \in db : r.chat_id = chat /\ r.uid = uid}

\* DELETE FROM uids WHERE chat_id = ? AND uid = ?   (the rows deleted)
DeleteRowsOne(db, chat, uid) ==
    LET m == {r \in db : r.chat_id = chat /\ r.uid = uid}
    IN  IF m = {} THEN {} ELSE {CHOOSE r \in m : \A x \in m : r.id <= x.id}
DeleteRows(db, chat, uid) == {r \in db : r.chat_id = chat /\ r.uid = uid}

\* DELETE FROM uids WHERE chat_id = ?   (the rows deleted)
DeleteAllRows(db, chat) == {r \in db : r.chat_id = chat}

\* SELECT uid, note, saved_at FROM uids WHERE chat_id = ?
ExportRows(db, chat) == ById({r \in db : r.chat_id = chat})

\* SELECT COUNT(*) as c, MAX(saved_at) as last FROM uids WHERE chat_id = ?
StatsRows(db, chat) == {r \in db : r.chat_id = chat}

(* ---------------- effects of a handler run ---------------- *)
\* What a handler run did: the exception it raised ("" for none), the table as
\* its connection leaves it, the replies and files sent, the number of
\* sqlite3.connect calls, of conn.close calls, of executed statements and of
\* commits, the extraction attempts in order, the rows its statement matched,
\* and its return value.
NoEff(db) ==
    [raised |-> "", db |-> db, replies |-> <<>>, docs |-> <<>>,
     connects |-> 0, closes |-> 0, stmts |-> 0, commits |-> 0,
     attempts |-> <<>>, read |-> {}, ret |-> "None"]

Msg(m, data, rows) == [msg |-> m, data |-> data, rows |-> rows]

Raise(e, exc) == [e EXCEPT !.raised = exc]

\* await update.message.reply_text(...): a request to the Bot API, which raises
\* NetworkError when the API cannot be reached.  Nothing runs after a raise.
reply_text(e, m, data, rows) ==
    IF e.raised # "" THEN e
    ELSE IF ~net THEN Raise(e, "NetworkError")
    ELSE [e EXCEPT !.replies = Append(@, Msg(m, data, rows))]

\* await update.message.reply_document(...), likewise.
reply_document(e, file) ==
    IF e.raised # "" THEN e
    ELSE IF ~net THEN Raise(e, "NetworkError")
    ELSE [e EXCEPT !.docs = Append(@, file)]

\* with_db: connect; call func(*args, conn=conn, **kwargs); commit when it
\* returns; close in every case.  `kwConn' says that the caller passed conn=...
\* itself: the call expression then has two values for the keyword conn and
\* raises TypeError before func runs.  Closing without commit discards what
\* func executed on the connection.
\* (with_db_leaky: the same with conn.close() after the commit instead of in a
\* finally clause.  with_db_commit_always: the same with the commit in the
\* finally clause.)
with_db_commit_always(db0, kwConn, body) ==
    IF kwConn
    THEN [NoEff(db0) EXCEPT !.raised = "TypeError", !.connects = 1, !.closes = 1,
                            !.commits = 1]
    ELSE [body EXCEPT !.connects = @ + 1, !.closes = @ + 1, !.commits = @ + 1]
with_db_leaky(db0, kwConn, body) ==
    IF kwConn
    THEN [NoEff(db0) EXCEPT !.raised = "TypeError", !.connects = 1]
    ELSE IF body.raised # ""
    THEN [body EXCEPT !.connects = @ + 1, !.db = db0]
    ELSE [body EXCEPT !.connects = @ + 1, !.closes = @ + 1, !.commits = @ + 1]
with_db(db0, kwConn, body) ==
    IF kwConn
    THEN [NoEff(db0) EXCEPT !.raised = "TypeError", !.connects = 1, !.closes = 1]
    ELSE IF body.raised # ""
    THEN [body EXCEPT !.connects = @ + 1, !.closes = @ + 1, !.db = db0]
    ELSE [body EXCEPT !.connects = @ + 1, !.closes = @ + 1, !.commits = @ + 1]

\* Sequencing: run `second' (an effect computed on first.db) after `first'.
Then(first, second) ==
    [raised |-> second.raised, db |-> second.db,
     replies |-> first.replies \o second.replies,
     docs |-> first.docs \o second.docs,
     connects |-> first.connects + second.connects,
     closes |-> first.closes + second.closes,
     stmts |-> first.stmts + second.stmts,
     commits |-> first.commits + second.commits,
     attempts |-> first.attempts \o second.attempts,
     read |-> first.read \cup second.read,
     ret |-> second.ret]

\* init_db: two CREATE TABLE IF NOT EXISTS (existing rows are kept), a commit of
\* its own, then with_db's commit.
init_db(db) ==
    with_db(db, FALSE, [NoEff(db) EXCEPT !.stmts = 2, !.commits = 1])

\* admin_only: reject a user outside ADMINS before the wrapped handler (and its
\* with_db) runs.
\* `obj' is what the handler got as its first argument: an Update has
\* effective_user, a Message (what menu_callback passes) has not.
admin_only_open(db, obj, user, body) ==
    IF obj # "Update" THEN Raise(NoEff(db), "AttributeError") ELSE body
admin_only(db, obj, user, body) ==
    IF obj # "Update"
    THEN Raise(NoEff(db), "AttributeError")
    ELSE IF user \notin ADMINS
    THEN reply_text(NoEff(db), "admins only", <<>>, <<>>)
    ELSE body

\* save_uid_to_db is itself wrapped by with_db; `kwConn' as in with_db.
save_uid_to_db(db, kwConn, chat, uid, note, now) ==
    with_db(db, kwConn, [NoEff(InsertRow(db, chat, uid, note, now)) EXCEPT !.stmts = 1])


\* `second' runs only when `first' did not raise.
AndThen(first, second) == IF first.raised # "" THEN first ELSE Then(first, second)

(* ---------------- UID extractor ---------------- *)
\* re.search(r"facebook\.com/(?:profile\.php\?id=)?([0-9A-Za-z.\-_]+)", url) on
\* the two URLs of the model: "/a" captures "a"; "/?x" has no character of the
\* class after the slash and does not match.
FbRegex(url) == IF url = UrlA THEN <<"a">> ELSE None

\* What the Graph API call of one link can come to: a 200 response whose JSON
\* object has an "id", one whose object has none, one whose body is not JSON,
\* another status, a request that fails in transport, one that passes the 10 s
\* timeout.
GraphId == <<"b">>
Outcomes == {"200 id", "200 no id", "200 malformed body", "non-200",
             "transport failure", "timeout"}
NoCall == "no call"

\* What sess.get(...) and resp.json() raise on each outcome ("" for nothing).
GraphRaises(outcome) ==
    IF outcome = "transport failure" THEN "ClientError"
    ELSE IF outcome = "timeout" THEN "TimeoutError"
    ELSE IF outcome = "200 malformed body" THEN "ContentTypeError"
    ELSE ""

Returned(uid) == [raised |-> "", uid |-> uid]

\* try_get_fb_uid_from_url: without FB_ACCESS_TOKEN the regex; with it the
\* "id" of a 200 response, None for any other status, and None when the request
\* or the decoding raises (except Exception: the exception is logged and the
\* function falls through to return None).  The result is what the call
\* raised ("" for nothing) and what it returned.
\* (try_get_fb_uid_from_url_unguarded: the same with the request outside any
\* try block.)
try_get_fb_uid_from_url_unguarded(url, token, outcome) ==
    IF ~token THEN Returned(FbRegex(url))
    ELSE IF GraphRaises(outcome) # "" THEN [raised |-> GraphRaises(outcome), uid |-> None]
    ELSE IF outcome = "200 id" THEN Returned(GraphId)
    ELSE Returned(None)
try_get_fb_uid_from_url(url, token, outcome) ==
    IF ~token THEN Returned(FbRegex(url))
    ELSE IF GraphRaises(outcome) # "" THEN Returned(None)
    ELSE IF outcome = "200 id" THEN Returned(GraphId)
    ELSE Returned(None)

\* re.findall(r"(https?://(?:www\.)?facebook\.com/[^\s]+)", text)
FindUrls(text) == SelectSeq(text, LAMBDA x : x \in Urls)

(* ---------------- handlers ---------------- *)
\* start: init_db, then the menu.
start(db) ==
    AndThen(init_db(db), reply_text(NoEff(db), "menu", <<>>, <<>>))

Shown(rows) ==
    [i \in 1..Len(rows) |->
        <<rows[i].uid, IF rows[i].note = <<>> THEN <<"-">> ELSE rows[i].note,
          rows[i].saved_at>>]

cmd_find(db, chat, args) ==
    with_db(db, FALSE,
        IF args = <<>>
        THEN reply_text(NoEff(db), "usage find", <<>>, <<>>)
        ELSE LET q == Join(Space, args)
                 rows == FindRows(db, chat, q)
                 e == [NoEff(db) EXCEPT !.stmts = 1, !.read = Range(rows)]
             IN  IF rows = <<>>
                 THEN reply_text(e, "no results", <<>>, <<>>)
                 ELSE reply_text(e, "rows", <<>>, Shown(rows)))

cmd_check(db, chat, args) ==
    with_db(db, FALSE,
        IF args = <<>>
        THEN reply_text(NoEff(db), "usage check", <<>>, <<>>)
        ELSE LET uid == args[1]
                 m == CheckRows(db, chat, uid)
                 e == [NoEff(db) EXCEPT !.stmts = 1, !.read = m]
             IN  IF Cardinality(m) > 0
                 THEN reply_text(e, "exists", <<>>, <<>>)
                 ELSE reply_text(e, "not found", <<>>, <<>>))

cmd_delete(db, chat, args) ==
    with_db(db, FALSE,
        IF args = <<>>
        THEN reply_text(NoEff(db), "usage delete", <<>>, <<>>)
        ELSE LET uid == args[1]
                 m == DeleteRows(db, chat, uid)
                 e == [NoEff(db \ m) EXCEPT !.stmts = 1, !.read = m]
             IN  IF Cardinality(m) > 0
                 THEN reply_text(e, "deleted", <<>>, <<>>)
                 ELSE reply_text(e, "uid not found", <<>>, <<>>))

cmd_deleteall(db, obj, chat, user) ==
    admin_only(db, obj, user,
        with_db(db, FALSE,
            LET m == DeleteAllRows(db, chat)
            IN  reply_text([NoEff(db \ m) EXCEPT !.stmts = 1, !.read = m],
                           "all removed", <<>>, <<>>)))

\* csv.writer(output) in its default dialect: delimiter ',', quotechar '"',
\* doubled quotes, QUOTE_MINIMAL, line terminator "\r\n".
Comma == ","
Quote == "\""
CR == "\r"
LF == "\n"

RECURSIVE DoubleQuotes(_)
DoubleQuotes(f) ==
    IF f = <<>> THEN <<>>
    ELSE (IF Head(f) = Quote THEN <<Quote, Quote>> ELSE <<Head(f)>>)
         \o DoubleQuotes(Tail(f))

\* One field as the writer puts it: quoted, with its quotes doubled, when it
\* holds a delimiter, a quote or a character of the line terminator.
\* (CsvFieldBare: the field as it is.)
CsvFieldBare(f) == f
CsvField(f) ==
    IF \E i \in 1..Len(f) : f[i] \in {Comma, Quote, CR, LF}
    THEN <<Quote>> \o DoubleQuotes(f) \o <<Quote>>
    ELSE f

\* writer.writerow(fields)
CsvLine(fields) ==
    Join(Comma, [i \in 1..Len(fields) |-> CsvField(fields[i])]) \o <<CR, LF>>

RECURSIVE CsvLines(_)
CsvLines(rows) ==
    IF rows = <<>> THEN <<>> ELSE CsvLine(Head(rows)) \o CsvLines(Tail(rows))

\* saved_at is stored as text (an ISO timestamp); the model's instants are
\* numbers, written as their digits.
Stamp(at) == <<ToString(at)>>

CsvHeader == << <<"uid">>, <<"note">>, <<"saved_at">> >>

\* The file: its name, the header row and one row per selected record as
\* handed to writerow, and the text the writer made of them (utf-8 encoding
\* changes no character of the model's alphabet).
CsvFile(chat, rows) ==
    [name |-> <<"uids_", chat, ".csv">>,
     header |-> <<"uid", "note", "saved_at">>,
     rows |-> [i \in 1..Len(rows) |-> <<rows[i].uid, rows[i].note, rows[i].saved_at>>],
     content |-> CsvLine(CsvHeader)
                 \o CsvLines([i \in 1..Len(rows) |->
                                 <<rows[i].uid, rows[i].note, Stamp(rows[i].saved_at)>>])]

cmd_export(db, obj, chat, user) ==
    admin_only(db, obj, user,
        with_db(db, FALSE,
            LET rows == ExportRows(db, chat)
                e == [NoEff(db) EXCEPT !.stmts = 1, !.read = Range(rows)]
            IN  IF rows = <<>>
                THEN reply_text(e, "no uids", <<>>, <<>>)
                ELSE reply_document(e, CsvFile(chat, rows))))

cmd_thongke(db, obj, chat, user) ==
    admin_only(db, obj, user,
        with_db(db, FALSE,
            LET m == StatsRows(db, chat)
                e == [NoEff(db) EXCEPT !.stmts = 1, !.read = m]
            IN  reply_text(e, "stats", <<>>,
                           << <<Cardinality(m), MaxOf({r.saved_at : r \in m})>> >>)))

\* menu_callback: q.answer() acknowledges the button and sends no message; the
\* privileged buttons test ADMINS themselves and then hand q.message, a
\* Message, to the decorated command.
menu_callback(db, chat, user, data) ==
    IF ~net THEN Raise(NoEff(db), "NetworkError")
    ELSE IF data = "menu_save" THEN reply_text(NoEff(db), "prompt uid", <<>>, <<>>)
    ELSE IF data = "menu_export"
    THEN IF user \notin ADMINS
         THEN reply_text(NoEff(db), "admins only (menu export)", <<>>, <<>>)
         ELSE cmd_export(db, "Message", chat, user)
    ELSE IF data = "menu_find" THEN reply_text(NoEff(db), "hint find", <<>>, <<>>)
    ELSE IF data = "menu_delete" THEN reply_text(NoEff(db), "hint delete", <<>>, <<>>)
    ELSE IF data = "menu_thongke"
    THEN IF user \notin ADMINS
         THEN reply_text(NoEff(db), "admins only (menu stats)", <<>>, <<>>)
         ELSE cmd_thongke(db, "Message", chat, user)
    ELSE IF data = "menu_settings" THEN reply_text(NoEff(db), "hint settings", <<>>, <<>>)
    ELSE IF data = "menu_help" THEN reply_text(NoEff(db), "hint help", <<>>, <<>>)
    ELSE NoEff(db)

cmd_save(db) ==
    [reply_text(NoEff(db), "prompt uid", <<>>, <<>>) EXCEPT !.ret = SAVE_SINGLE]

cmd_cancel(db) ==
    [reply_text(NoEff(db), "cancelled", <<>>, <<>>) EXCEPT !.ret = END]

\* The (uid, note) pair handle_save_single makes of a message text.
ParseSave(text) ==
    LET t == Strip(text)
    IN  IF Has(t, Pipe)
        THEN LET p == SplitFirst(t, Pipe) IN <<Strip(p[1]), Strip(p[2])>>
        ELSE <<t, <<>>>>

handle_save_single(db, chat, text, now) ==
    with_db(db, FALSE,
        LET p == ParseSave(text)
            saved == save_uid_to_db(db, TRUE, chat, p[1], p[2], now)
        IN  AndThen(saved,
                [reply_text(NoEff(saved.db), "saved uid", <<p[1]>>, <<>>)
                    EXCEPT !.ret = END]))

AutoNote(url) == <<"Auto from ", url>>

\* The for loop of detect_facebook_link from link i on; `e' is the run so far,
\* `saved' the list saved.  An attempt is the link, what the extractor returned
\* and what its Graph API call came to.
RECURSIVE LinkLoop(_, _, _, _, _, _, _, _)
LinkLoop(e, urls, i, saved, chat, token, outcomes, now) ==
    IF i > Len(urls)
    THEN IF saved # <<>> THEN reply_text(e, "auto-saved", saved, <<>>) ELSE e
    ELSE LET x == try_get_fb_uid_from_url(urls[i], token, outcomes[i])
             uid == x.uid
             tried == [e EXCEPT !.attempts = Append(@, <<urls[i], uid, outcomes[i]>>)]
         IN  IF x.raised # "" THEN Raise(tried, x.raised)
             ELSE IF Truthy(uid)
             THEN LET ins == Then(tried,
                                  save_uid_to_db(tried.db, TRUE, chat, uid,
                                                 AutoNote(urls[i]), now))
                  IN  IF ins.raised # "" THEN ins
                      ELSE LinkLoop(ins, urls, i + 1, Append(saved, uid),
                                    chat, token, outcomes, now)
             ELSE LinkLoop(tried, urls, i + 1, saved, chat, token, outcomes, now)

detect_facebook_link_chatty(db, chat, text, token, outcomes, now) ==
    with_db(db, FALSE,
        LET urls == FindUrls(text)
        IN  IF urls = <<>> THEN reply_text(NoEff(db), "auto-saved", <<>>, <<>>)
            ELSE LinkLoop(NoEff(db), urls, 1, <<>>, chat, token, outcomes, now))

detect_facebook_link(db, chat, text, token, outcomes, now) ==
    with_db(db, FALSE,
        LET urls == FindUrls(text)
        IN  IF urls = <<>> THEN NoEff(db)
            ELSE LinkLoop(NoEff(db), urls, 1, <<>>, chat, token, outcomes, now))


(* ---------------- dispatch (main) ---------------- *)
Keys == Chats \X Users

Command(cmd, args) == [kind |-> "command", cmd |-> cmd, args |-> args, text |-> <<>>, data |-> ""]
TextMsg(text) == [kind |-> "text", cmd |-> "", args |-> <<>>, text |-> text, data |-> ""]
Button(data) == [kind |-> "callback", cmd |-> "", args |-> <<>>, text |-> <<>>, data |-> data]

Cmd(name, h) == [kind |-> "command", cmd |-> name, h |-> h]

\* The handlers in the order main() adds them (all in the default group).
Registered ==
    << Cmd("start", "start"),
       [kind |-> "callback", cmd |-> "", h |-> "menu_callback"],
       Cmd("help", "cmd_help"),
       Cmd("getid", "cmd_getid"),
       Cmd("find", "cmd_find"),
       Cmd("check", "cmd_check"),
       Cmd("delete", "cmd_delete"),
       Cmd("deleteall", "cmd_deleteall"),
       Cmd("export", "cmd_export"),
       Cmd("thongke", "cmd_thongke"),
       Cmd("suathongbao", "cmd_help"),
       Cmd("layanh", "cmd_layanh"),
       Cmd("checkinfo", "cmd_checkinfo"),
       Cmd("cancel", "cmd_cancel"),
       [kind |-> "conv", cmd |-> "", h |-> "conv_save"],
       [kind |-> "text", cmd |-> "", h |-> "detect_facebook_link"] >>

\* conv_save: in END only the entry point /save is looked at; in SAVE_SINGLE
\* the state's text handler, then the fallback /cancel.
\* (ConvHandlerCommandsOnly: the same without the state's text handler.)
ConvHandlerCommandsOnly(upd, st) ==
    IF st = END
    THEN IF upd.kind = "command" /\ upd.cmd = "save" THEN "cmd_save" ELSE "none"
    ELSE IF upd.kind = "command" /\ upd.cmd = "cancel" THEN "conv_save.cmd_cancel"
    ELSE "none"
ConvHandler(upd, st) ==
    IF st = END
    THEN IF upd.kind = "command" /\ upd.cmd = "save" THEN "cmd_save" ELSE "none"
    ELSE IF upd.kind = "text" THEN "handle_save_single"
    ELSE IF upd.kind = "command" /\ upd.cmd = "cancel" THEN "conv_save.cmd_cancel"
    ELSE "none"

Matches(reg, upd, st) ==
    IF reg.kind = "conv" THEN ConvHandler(upd, st) # "none"
    ELSE IF reg.kind = "command" THEN upd.kind = "command" /\ upd.cmd = reg.cmd
    ELSE upd.kind = reg.kind

\* The index of the first registered handler from i on that matches, 0 if none.
\* (LastMatch: the last one instead.)
RECURSIVE LastMatch(_, _, _)
LastMatch(i, upd, st) ==
    IF i > Len(Registered) THEN 0
    ELSE LET later == LastMatch(i + 1, upd, st)
         IN  IF later # 0 THEN later
             ELSE IF Matches(Registered[i], upd, st) THEN i
             ELSE 0
RECURSIVE FirstMatch(_, _, _)
FirstMatch(i, upd, st) ==
    IF i > Len(Registered) THEN 0
    ELSE IF Matches(Registered[i], upd, st) THEN i
    ELSE FirstMatch(i + 1, upd, st)

\* The one handler that gets the update: the first registered one that matches.
Dispatch(upd, st) ==
    LET i == FirstMatch(1, upd, st)
    IN  IF i = 0 THEN "none"
        ELSE IF Registered[i].kind = "conv" THEN ConvHandler(upd, st)
        ELSE Registered[i].h

\* ConversationHandler: the state a conversation callback leaves.  A callback
\* that raises, or returns None, leaves the state as it was.
NewState(st, e) ==
    IF e.raised # "" \/ e.ret = "None" THEN st ELSE e.ret

\* datetime.utcnow(): an instant after every pre-existing row's.
UtcNow == MaxRows + 1

(* ---------------- state ---------------- *)
\* `st' is the sender's conversation state and `before' the table when the
\* update arrived.
Seen(op, chat, user, upd, st, before, e) ==
    [op |-> op, chat |-> chat, user |-> user, upd |-> upd, st |-> st,
     before |-> before, eff |-> e]

\* uids.db is a file that outlives the process: CREATE TABLE IF NOT EXISTS keeps
\* whatever rows an earlier run left.  Row i was written at instant i.
\* A row of uid "a" has no note, a row of uid "b" the note  a,"  (a comma and a
\* quote after the letter).
InitNote(u) == IF u = <<"a">> THEN <<>> ELSE <<"a", ",", "\"">>
InitTables ==
    {db \in SUBSET {Row(i, u, InitNote(u), c, i) : i \in 1..MaxRows, u \in Tokens, c \in Chats} :
        \A r1, r2 \in db : r1.id = r2.id => r1 = r2}

\* The tables the messages are tried on: the empty one and those of one row.
SmallTables ==
    {db \in InitTables : Cardinality(db) <= 1 /\ \A r \in db : r.id = 1 /\ r.uid = <<"a">>}

InitWith(tables, tokens) ==
    /\ uids \in tables
    /\ conv = [k \in Keys |-> END]
    /\ fbToken \in tokens
    /\ highId = MaxOf(Ids(uids))
    /\ last = Seen("init_db", 0, 0, Command("", <<>>), END, uids, init_db(uids))
    /\ net = TRUE
    /\ open = 0
    /\ pc = "idle"
    /\ calls = [c \in Chats |-> 0]

\* FB_ACCESS_TOKEN is optional; without it the extractor is the regex.
Init == InitWith(SmallTables, {FALSE})

\* One handler run: `op' is the handler main() dispatches `upd' to.
Run(op, chat, user, upd, e) ==
    /\ pc = "idle"
    /\ Dispatch(upd, conv[<<chat, user>>]) = op
    /\ uids' = e.db
    /\ highId' = MaxOf(Ids(e.db) \cup {highId})
    /\ last' = Seen(op, chat, user, upd, conv[<<chat, user>>], uids, e)
    /\ open' = open + e.connects - e.closes
    /\ UNCHANGED <<fbToken, net, pc, calls>>

Start(c, u) ==
    /\ Run("start", c, u, Command("start", <<>>), start(uids))
    /\ UNCHANGED conv

MenuCallback(c, u, data) ==
    /\ Run("menu_callback", c, u, Button(data), menu_callback(uids, c, u, data))
    /\ UNCHANGED conv

CmdFind(c, u, args) ==
    /\ Run("cmd_find", c, u, Command("find", args), cmd_find(uids, c, args))
    /\ UNCHANGED conv

CmdCheck(c, u, args) ==
    /\ Run("cmd_check", c, u, Command("check", args), cmd_check(uids, c, args))
    /\ UNCHANGED conv

CmdDelete(c, u, args) ==
    /\ Run("cmd_delete", c, u, Command("delete", args), cmd_delete(uids, c, args))
    /\ UNCHANGED conv

CmdDeleteall(c, u) ==
    /\ Run("cmd_deleteall", c, u, Command("deleteall", <<>>), cmd_deleteall(uids, "Update", c, u))
    /\ UNCHANGED conv

CmdExport(c, u) ==
    /\ Run("cmd_export", c, u, Command("export", <<>>), cmd_export(uids, "Update", c, u))
    /\ UNCHANGED conv

CmdThongke(c, u) ==
    /\ Run("cmd_thongke", c, u, Command("thongke", <<>>), cmd_thongke(uids, "Update", c, u))
    /\ UNCHANGED conv

CmdSave(c, u) ==
    LET e == cmd_save(uids)
    IN  /\ Run("cmd_save", c, u, Command("save", <<>>), e)
        /\ conv' = [conv EXCEPT ![<<c, u>>] = NewState(@, e)]

\* /cancel: the stand-alone handler when main() dispatches to it (its return
\* value then goes nowhere), the conversation's fallback otherwise.
CmdCancel(c, u) ==
    LET e == cmd_cancel(uids)
        upd == Command("cancel", <<>>)
        op == Dispatch(upd, conv[<<c, u>>])
    IN  /\ op \in {"cmd_cancel", "conv_save.cmd_cancel"}
        /\ Run(op, c, u, upd, e)
        /\ conv' = IF op = "conv_save.cmd_cancel"
                   THEN [conv EXCEPT ![<<c, u>>] = NewState(@, e)]
                   ELSE conv

HandleSaveSingle(c, u, text) ==
    LET e == handle_save_single(uids, c, text, UtcNow)
    IN  /\ Run("handle_save_single", c, u, TextMsg(text), e)
        /\ conv' = [conv EXCEPT ![<<c, u>>] = NewState(@, e)]

DetectFacebookLink(c, u, text) ==
    LET n == Len(FindUrls(text))
    IN  \E oc \in IF fbToken THEN [1..n -> Outcomes] ELSE {[i \in 1..n |-> NoCall]} :
            /\ Run("detect_facebook_link", c, u, TextMsg(text),
                   detect_facebook_link(uids, c, text, fbToken, oc, UtcNow))
            /\ UNCHANGED conv

StoreNext ==
    \E c \in Chats, u \in Users :
        \/ Start(c, u)
        \/ \E data \in MenuData : MenuCallback(c, u, data)
        \/ \E args \in ArgLists : CmdFind(c, u, args)
        \/ \E args \in ArgLists : CmdCheck(c, u, args)
        \/ \E args \in ArgLists : CmdDelete(c, u, args)
        \/ CmdDeleteall(c, u)
        \/ CmdExport(c, u)
        \/ CmdThongke(c, u)

DialogNext ==
    \E c \in Chats, u \in Users :
        \/ CmdSave(c, u)
        \/ CmdCancel(c, u)
        \/ \E text \in MsgTexts : HandleSaveSingle(c, u, text)
        \/ \E text \in MsgTexts : DetectFacebookLink(c, u, text)

\* Messages and the save conversation.
Next == DialogNext

Spec == Init /\ [][Next]_vars

\* The commands on the table alone, from every table of up to MaxRows rows.
StoreInit == InitWith(InitTables, {FALSE})

StoreSpec == StoreInit /\ [][StoreNext]_vars

\* Auto-ingestion with FB_ACCESS_TOKEN set: every link is a Graph API call.
ResolverInit == InitWith(SmallTables, {TRUE})

ResolverNext == \E c \in Chats, u \in Users, text \in MsgTexts : DetectFacebookLink(c, u, text)

ResolverSpec == ResolverInit /\ [][ResolverNext]_vars

\* The uids the extraction attempts of the last run yielded, in order.
RECURSIVE Yielded(_)
Yielded(attempts) ==
    IF attempts = <<>> THEN <<>>
    ELSE (IF Truthy(Head(attempts)[2]) THEN <<Head(attempts)[2]>> ELSE <<>>)
         \o Yielded(Tail(attempts))

(* ---- the commands on the table with a Bot API that comes and goes ---- *)
\* The Bot API becomes unreachable, or reachable again, between two updates.
NetworkChange ==
    /\ pc = "idle"
    /\ net' = ~net
    /\ UNCHANGED <<uids, conv, fbToken, highId, last, open, pc, calls>>

FailNext == StoreNext \/ NetworkChange

FailSpec == StoreInit /\ [][FailNext]_vars

(* ---- auto-ingestion call by call (FB_ACCESS_TOKEN set) ---- *)
\* With a token every link is a Graph API request, and the handler is suspended
\* while the request is under way.  The application is built without
\* concurrent_updates, so the next update is taken up only when the handler of
\* this one is through.

\* The run while it waits: with_db has connected, nothing else is done but the
\* attempts so far.
Suspended(db, attempts) == [NoEff(db) EXCEPT !.connects = 1, !.attempts = attempts]

\* detect_facebook_link from the wrapper's connect to the first request.
IngestBegin(c, u, text) ==
    /\ pc = "idle"
    /\ fbToken
    /\ \A k \in Chats : calls[k] < MaxCalls
    /\ FindUrls(text) # <<>>
    /\ Dispatch(TextMsg(text), conv[<<c, u>>]) = "detect_facebook_link"
    /\ pc' = "resolving"
    /\ open' = open + 1
    /\ last' = Seen("detect_facebook_link", c, u, TextMsg(text), conv[<<c, u>>],
                    uids, Suspended(uids, <<>>))
    /\ UNCHANGED <<uids, conv, fbToken, highId, net, calls>>

\* The request under way comes to `outcome'; the handler runs on to its next
\* request or to its end (return or exception, through with_db's finally).
GraphReturn(outcome) ==
    /\ pc = "resolving"
    /\ LET text == last.upd.text
           urls == FindUrls(text)
           done == last.eff.attempts
           i == Len(done) + 1
           oc == [j \in 1..Len(urls) |->
                     IF j < i THEN done[j][3] ELSE IF j = i THEN outcome ELSE NoCall]
           e == detect_facebook_link(uids, last.chat, text, fbToken, oc, UtcNow)
       IN  IF i < Len(urls) /\ Len(e.attempts) > i
           THEN /\ last' = [last EXCEPT !.eff = Suspended(uids, SubSeq(e.attempts, 1, i))]
                /\ UNCHANGED <<uids, conv, fbToken, highId, net, open, pc, calls>>
           ELSE /\ pc' = "idle"
                /\ uids' = e.db
                /\ highId' = MaxOf(Ids(e.db) \cup {highId})
                /\ last' = [last EXCEPT !.eff = e]
                /\ open' = (open - 1) + e.connects - e.closes
                /\ calls' = [calls EXCEPT ![last.chat] = @ + Len(Yielded(e.attempts))]
                /\ UNCHANGED <<conv, fbToken, net>>

StepInit == InitWith(SmallTables, {TRUE})

\* The messages are those with a link, from the users outside ADMINS: a text
\* without a link makes no request, and detect_facebook_link does not look at
\* the sender.
StepNext ==
    \/ \E c \in Chats, u \in Users \ ADMINS, text \in LinkTexts : IngestBegin(c, u, text)
    \/ \E outcome \in Outcomes : GraphReturn(outcome)

StepSpec == StepInit /\ [][StepNext]_vars


(* ======================= properties ======================= *)
Key(l) == <<l.chat, l.user>>
Added == uids \ last.before
Removed == last.before \ uids
OtherChats(db, chat) == {r \in db : r.chat_id # chat}
Copies(db, chat, uid, note) ==
    Cardinality({r \in db : r.chat_id = chat /\ r.uid = uid /\ r.note = note})

TableCmds == {"cmd_find", "cmd_check", "cmd_delete", "cmd_deleteall", "cmd_export", "cmd_thongke"}

ProjectionOf(row, r) == row = <<r.uid, r.note, r.saved_at>>
ShownOf(row, r) == row = <<r.uid, IF r.note = <<>> THEN <<"-">> ELSE r.note, r.saved_at>>

\* C1 (StoreSpec): chat scoping.  After find, check, delete, deleteall, export
\* or stats in chat A, every row the statement matched is a row of A, every
\* row shown in the reply or written to the file is made of a matched row of A,
\* and the rows of every other chat are the ones that were there before.
C1_ChatScoping ==
    last.op \in TableCmds =>
        /\ \A r \in last.eff.read : r.chat_id = last.chat /\ r \in last.before
        /\ last.op = "cmd_find" =>
             \A i \in 1..Len(last.eff.replies) :
                \A j \in 1..Len(last.eff.replies[i].rows) :
                    \E r \in last.eff.read : ShownOf(last.eff.replies[i].rows[j], r)
        /\ \A i \in 1..Len(last.eff.docs) :
                \A j \in 1..Len(last.eff.docs[i].rows) :
                    \E r \in last.eff.read : ProjectionOf(last.eff.docs[i].rows[j], r)
        /\ OtherChats(uids, last.chat) = OtherChats(last.before, last.chat)

\* A delete in one chat of a uid that another chat holds too.
C1_Witness ==
    /\ last.op = "cmd_delete"
    /\ Removed # {}
    /\ \E r \in OtherChats(uids, last.chat) : r.uid = last.upd.args[1]

Privileged(l) ==
    \/ l.op \in {"cmd_deleteall", "cmd_export", "cmd_thongke"}
    \/ l.op = "menu_callback" /\ l.upd.data \in {"menu_export", "menu_thongke"}

Rejections == {"admins only", "admins only (menu export)", "admins only (menu stats)"}

\* C4 (StoreSpec): authorization.  When a user outside ADMINS invokes deleteall,
\* export or stats, by command or by menu button, exactly one reply is sent and
\* it is a rejection, the table is unchanged, no file is sent, and no
\* connection, statement or commit is made.
C4_Authorization ==
    (Privileged(last) /\ last.user \notin ADMINS) =>
        /\ Len(last.eff.replies) = 1
        /\ last.eff.replies[1].msg \in Rejections
        /\ uids = last.before
        /\ last.eff.docs = <<>>
        /\ last.eff.connects = 0
        /\ last.eff.stmts = 0
        /\ last.eff.commits = 0

\* A user outside ADMINS sent /deleteall in a chat that has rows.
C4_Witness ==
    /\ last.op = "cmd_deleteall"
    /\ last.user \notin ADMINS
    /\ \E r \in uids : r.chat_id = last.chat

\* C5 (StoreSpec): delete-by-uid completeness.  After /delete <uid> in a chat, no
\* row of that chat has that uid, whatever their number was, and /check <uid>
\* in that chat answers "not found".
C5_DeleteComplete ==
    (last.op = "cmd_delete" /\ last.upd.args # <<>> /\ last.eff.raised = "") =>
        /\ \A r \in uids : ~(r.chat_id = last.chat /\ r.uid = last.upd.args[1])
        /\ cmd_check(uids, last.chat, <<last.upd.args[1]>>).replies
              = <<Msg("not found", <<>>, <<>>)>>

\* A delete that removed two rows of the same uid.
C5_Witness ==
    /\ last.op = "cmd_delete"
    /\ Cardinality(Removed) >= 2
    /\ last.eff.replies = <<Msg("deleted", <<>>, <<>>)>>

SavePair == ParseSave(last.upd.text)

\* C2 as stated (Spec): the text message that follows /save is split on the
\* first '|' into trimmed uid and note, exactly one row (uid, note, chat) is
\* added, nothing is removed, and the sender's conversation is back in END.
C2_ManualSave ==
    last.op = "handle_save_single" =>
        /\ Cardinality(Added) = 1
        /\ \A r \in Added :
              r.uid = SavePair[1] /\ r.note = SavePair[2] /\ r.chat_id = last.chat
        /\ Removed = {}
        /\ conv[Key(last)] = END

\* C3 as stated (Spec): /cancel from a sender whose conversation is in
\* SAVE_SINGLE puts it in END and adds no row.
C3_Cancel ==
    (last.upd.kind = "command" /\ last.upd.cmd = "cancel" /\ last.st = SAVE_SINGLE) =>
        /\ conv[Key(last)] = END
        /\ uids = last.before

\* C6 as stated (Spec): a manual save of a (uid, note) pair leaves one more row
\* of that pair in the chat than there was, also when the chat already has
\* one; so does the auto-save of each link that yields a uid.
C6_NoDedup ==
    /\ last.op = "handle_save_single" =>
          Copies(uids, last.chat, SavePair[1], SavePair[2])
            = Copies(last.before, last.chat, SavePair[1], SavePair[2]) + 1
    /\ last.op = "detect_facebook_link" =>
          \A i \in 1..Len(last.eff.attempts) :
             Truthy(last.eff.attempts[i][2]) =>
                Copies(uids, last.chat, last.eff.attempts[i][2], AutoNote(last.eff.attempts[i][1]))
                  > Copies(last.before, last.chat, last.eff.attempts[i][2],
                           AutoNote(last.eff.attempts[i][1]))

NoLink(l) == l.upd.kind = "text" /\ FindUrls(l.upd.text) = <<>>

\* C8 as stated (Spec): a text message without a link causes no connection, no
\* statement, no commit and no reply.
C8_Silence ==
    NoLink(last) =>
        /\ last.eff.connects = 0
        /\ last.eff.stmts = 0
        /\ last.eff.commits = 0
        /\ last.eff.replies = <<>>

\* C8 amended (Spec): a text message without a link that auto-ingestion handles
\* executes no statement, changes no row, sends no reply and no file and
\* raises nothing; with_db opens one connection for it, commits once and closes.
C8_SilentIngestion ==
    (NoLink(last) /\ last.op = "detect_facebook_link") =>
        /\ last.eff.stmts = 0
        /\ uids = last.before
        /\ last.eff.replies = <<>>
        /\ last.eff.docs = <<>>
        /\ last.eff.raised = ""
        /\ last.eff.attempts = <<>>
        /\ last.eff.connects = 1
        /\ last.eff.commits = 1

\* Auto-ingestion handled a text without a link in a chat that has a row.
C8_Witness ==
    /\ NoLink(last)
    /\ last.op = "detect_facebook_link"
    /\ \E r \in uids : r.chat_id = last.chat

\* C9 as stated (Spec): when auto-ingestion is through with a message, one reply
\* lists the uids saved for it, which are the uids its links yielded and the
\* uids of the rows added; when no link yielded a uid there is no reply.
C9_IngestionReply ==
    last.op = "detect_facebook_link" =>
        LET got == Yielded(last.eff.attempts)
        IN  IF got = <<>> THEN last.eff.replies = <<>>
            ELSE /\ last.eff.replies = <<Msg("auto-saved", got, <<>>)>>
                 /\ {r.uid : r \in Added} = Range(got)

\* C10 as stated (Spec): every link of the message gets an extraction attempt,
\* in the order of the text, and every link that yields a uid leaves one added
\* row (uid, "Auto from <link>", chat), whatever the other links came to.
C10_PerLink ==
    last.op = "detect_facebook_link" =>
        LET urls == FindUrls(last.upd.text)
            att == last.eff.attempts
        IN  /\ Len(att) = Len(urls)
            /\ \A i \in 1..Len(att) : att[i][1] = urls[i]
            /\ \A i \in 1..Len(att) :
                  Truthy(att[i][2]) =>
                     \E r \in Added : /\ r.uid = att[i][2]
                                      /\ r.note = AutoNote(att[i][1])
                                      /\ r.chat_id = last.chat


\* C11 as stated (StepSpec): during auto-ingestion no storage connection is open
\* while a resolver request is under way.
C11_NoStorageAcrossNetwork == pc = "resolving" => open = 0

\* The rows auto-ingestion has inserted for chat c: no other row has such a note.
AutoRows(c) == {r \in uids : r.chat_id = c /\ \E url \in Urls : r.note = AutoNote(url)}

\* C12 as stated (StepSpec): once the handlers of two messages of one chat that
\* each called save_uid_to_db are through, both rows are in the table.
C12_InsertsNotLost ==
    \A c \in Chats : (pc = "idle" /\ calls[c] >= 2) => Cardinality(AutoRows(c)) >= 2

\* C13 (StepSpec): with FB_ACCESS_TOKEN set, no exception of the Graph API
\* request reaches the caller of try_get_fb_uid_from_url: whatever a handler run
\* raises is not one of them.  An attempt yields a uid exactly when the response
\* was a 200 with an id, and then it yields that id; on a transport failure, a
\* timeout, another status, a body that is not JSON or a JSON object without id
\* it yields None and the loop goes on to the next link.
GraphExceptions == {GraphRaises(o) : o \in Outcomes} \ {""}

C13_FailureAbsorption ==
    last.op = "detect_facebook_link" =>
        /\ last.eff.raised \notin GraphExceptions
        /\ \A i \in 1..Len(last.eff.attempts) :
               LET a == last.eff.attempts[i]
               IN  /\ a[3] \in Outcomes
                   /\ a[3] = "200 id" => a[2] = GraphId
                   /\ a[3] # "200 id" => a[2] = None

\* A run whose first request failed in transport and whose second was answered
\* with an id.
C13_Witness ==
    /\ pc = "idle"
    /\ last.op = "detect_facebook_link"
    /\ Len(last.eff.attempts) = 2
    /\ last.eff.attempts[1][3] = "transport failure"
    /\ last.eff.attempts[1][2] = None
    /\ last.eff.attempts[2][3] = "200 id"
    /\ last.eff.attempts[2][2] = GraphId

\* C14 (StepSpec): whenever no handler is running no storage connection is
\* open, and the run that has just ended, by return or by exception, closed as
\* many connections as it opened.
C14_ScopedRelease ==
    pc = "idle" => /\ open = 0
                   /\ last.eff.closes = last.eff.connects

\* A run that opened two connections (its own and that of save_uid_to_db) and
\* ended by an exception.
C14_Witness ==
    /\ pc = "idle"
    /\ last.op = "detect_facebook_link"
    /\ last.eff.raised # ""
    /\ last.eff.connects = 2
    /\ last.eff.closes = 2
    /\ open = 0

\* C15 as stated (Spec): every text message that is not a command is scanned
\* for profile links by auto-ingestion, whatever the state of the sender's save
\* conversation.
C15_EveryTextScanned ==
    last.upd.kind = "text" => last.op = "detect_facebook_link"

\* The links of a text message the extractor was tried on are the first links
\* re.findall gives for the text, in order, at least one of them when any.
ScannedLinks ==
    LET urls == FindUrls(last.upd.text)
        tried == last.eff.attempts
    IN  /\ Len(tried) <= Len(urls)
        /\ urls # <<>> => tried # <<>>
        /\ \A i \in 1..Len(tried) : tried[i][1] = urls[i]

\* C15 amended (Spec): a text message that is not a command is scanned by
\* auto-ingestion when its sender has no save conversation open in the chat;
\* when the sender is in SAVE_SINGLE it goes to handle_save_single alone and no
\* link of it is tried.
C15_ScannedOutsideDialogue ==
    last.upd.kind = "text" =>
        /\ last.st = END => last.op = "detect_facebook_link" /\ ScannedLinks
        /\ last.st = SAVE_SINGLE =>
               last.op = "handle_save_single" /\ last.eff.attempts = <<>>

\* A text with a link sent by a user who is in SAVE_SINGLE.
C15_Witness ==
    /\ last.upd.kind = "text"
    /\ last.st = SAVE_SINGLE
    /\ FindUrls(last.upd.text) # <<>>
    /\ last.op = "handle_save_single"
    /\ last.eff.attempts = <<>>

\* The registered handlers that accept the update of the last run.
Accepting == {i \in 1..Len(Registered) : Matches(Registered[i], last.upd, last.st)}

\* The callback registered handler i runs for the update of the last run.
CallbackOf(i) ==
    IF Registered[i].kind = "conv" THEN ConvHandler(last.upd, last.st) ELSE Registered[i].h

ManualRows == {r \in Added : r.uid = SavePair[1] /\ r.note = SavePair[2]}
IngestedRows == {r \in Added : \E url \in Urls : r.note = AutoNote(url)}

\* C19 (Spec): the one callback that ran for an update is that of the accepting
\* handler registered first.  For a text message it is handle_save_single or
\* detect_facebook_link, the first exactly when the sender is in SAVE_SINGLE:
\* the first calls the extractor for no link and adds no auto-ingested row, the
\* second adds no manual-save row, and no run adds rows of both kinds.
C19_SingleDispatch ==
    last.op # "init_db" =>
        /\ Accepting # {}
        /\ \A i \in Accepting :
               (\A j \in Accepting : i <= j) => last.op = CallbackOf(i)
        /\ last.upd.kind = "text" =>
               /\ last.op \in {"handle_save_single", "detect_facebook_link"}
               /\ last.op = "handle_save_single" <=> last.st = SAVE_SINGLE
               /\ last.op = "handle_save_single" =>
                      last.eff.attempts = <<>> /\ IngestedRows = {}
               /\ last.op = "detect_facebook_link" => ManualRows = {}
               /\ ManualRows = {} \/ IngestedRows = {}

\* /cancel from a user in SAVE_SINGLE: the stand-alone command handler and the
\* conversation both accept it, and the stand-alone one, registered first, ran.
C19_Witness ==
    /\ last.upd.kind = "command"
    /\ last.upd.cmd = "cancel"
    /\ last.st = SAVE_SINGLE
    /\ Cardinality(Accepting) = 2
    /\ last.op = "cmd_cancel"

\* C17 as stated (StoreSpec): when a user in ADMINS presses the export or the
\* stats button, the run does what the export or the stats command does for
\* that chat: the same statement, the same file or reply.
C17_MenuRouting ==
    (last.op = "menu_callback" /\ last.user \in ADMINS) =>
        /\ last.upd.data = "menu_export" =>
               last.eff = cmd_export(last.before, "Update", last.chat, last.user)
        /\ last.upd.data = "menu_thongke" =>
               last.eff = cmd_thongke(last.before, "Update", last.chat, last.user)

\* C18 (FailSpec): after /delete or /deleteall the table differs from the one
\* before the command only if the handler raised nothing, its reply included;
\* a handler that raised, even after its DELETE statement ran, made no commit
\* and left the table as it was; one that ran its DELETE and raised nothing
\* committed once and the table lacks exactly the rows the statement matched.
C18_CommitOnSuccess ==
    last.op \in {"cmd_delete", "cmd_deleteall"} =>
        /\ last.eff.raised # "" => uids = last.before /\ last.eff.commits = 0
        /\ (last.eff.raised = "" /\ last.eff.stmts = 1) =>
               uids = last.before \ last.eff.read /\ last.eff.commits = 1
        /\ uids # last.before => last.eff.raised = ""

\* A /delete whose statement matched rows and whose reply could not be sent.
C18_Witness ==
    /\ last.op = "cmd_delete"
    /\ last.eff.stmts = 1
    /\ last.eff.read # {}
    /\ last.eff.raised = "NetworkError"
    /\ uids = last.before

\* A reader of CSV text (csv.reader in the writer's dialect): `st' is where it
\* stands ("row": before a row, "field": before a field, "plain": in a bare
\* field, "quoted": in a quoted field, "quote": after a quote in a quoted field,
\* "cr": after a CR that ended a row), `field' and `row' what it has of the
\* current field and row, `rows' the rows read.
RECURSIVE CsvScan(_, _, _, _, _)
CsvScan(t, st, field, row, rows) ==
    IF t = <<>>
    THEN IF st \in {"row", "cr"} THEN rows ELSE Append(rows, Append(row, field))
    ELSE LET c == Head(t)
             r == Tail(t)
             endRow == Append(rows, IF st = "row" THEN <<>> ELSE Append(row, field))
             afterRow == IF c = CR THEN "cr" ELSE "row"
         IN  IF st = "cr"
             THEN IF c = LF THEN CsvScan(r, "row", <<>>, <<>>, rows)
                  ELSE CsvScan(t, "row", <<>>, <<>>, rows)
             ELSE IF st = "quoted"
             THEN IF c = Quote THEN CsvScan(r, "quote", field, row, rows)
                  ELSE CsvScan(r, "quoted", Append(field, c), row, rows)
             ELSE IF st = "quote" /\ c = Quote
             THEN CsvScan(r, "quoted", Append(field, c), row, rows)
             ELSE IF st \in {"row", "field"} /\ c = Quote
             THEN CsvScan(r, "quoted", <<>>, row, rows)
             ELSE IF c = Comma
             THEN CsvScan(r, "field", <<>>, Append(row, field), rows)
             ELSE IF c \in {CR, LF}
             THEN CsvScan(r, afterRow, <<>>, <<>>, endRow)
             ELSE CsvScan(r, "plain", Append(field, c), row, rows)

CsvParse(t) == CsvScan(t, "row", <<>>, <<>>, <<>>)

Tuple(r) == <<r.uid, r.note, Stamp(r.saved_at)>>

\* The parsed file is the header row and then, for every (uid, note, saved_at),
\* as many rows of it as the chat has records of it: one row per record,
\* duplicates kept, nothing of another chat.
ExportOf(file, db, chat) ==
    LET parsed == CsvParse(file.content)
        mine == {r \in db : r.chat_id = chat}
    IN  /\ file.name = <<"uids_", chat, ".csv">>
        /\ Len(parsed) = 1 + Cardinality(mine)
        /\ parsed[1] = CsvHeader
        /\ \A i \in 2..Len(parsed) :
               LET same == {j \in 2..Len(parsed) : parsed[j] = parsed[i]}
               IN  Cardinality(same) = Cardinality({r \in mine : Tuple(r) = parsed[i]})

ExportByAdmin == last.op = "cmd_export" /\ last.user \in ADMINS

\* C16 as stated (StoreSpec): /export by a user in ADMINS sends one file, which
\* parses to the header row and one row per record of the chat.
C16_ExportContent ==
    ExportByAdmin =>
        /\ Len(last.eff.docs) = 1
        /\ ExportOf(last.eff.docs[1], last.before, last.chat)

\* C16 amended (StoreSpec): when the chat has a record, /export by a user in
\* ADMINS sends no text and one file, which parses to the header row and one
\* row per record of the chat; when the chat has none, it sends no file and the
\* one reply that there are no uids.  The table is unchanged.
C16_ExportOfRecords ==
    ExportByAdmin =>
        /\ uids = last.before
        /\ IF \E r \in last.before : r.chat_id = last.chat
           THEN /\ last.eff.replies = <<>>
                /\ Len(last.eff.docs) = 1
                /\ ExportOf(last.eff.docs[1], last.before, last.chat)
           ELSE /\ last.eff.docs = <<>>
                /\ Len(last.eff.replies) = 1
                /\ last.eff.replies[1].msg = "no uids"

\* An export of two records, one of them with a comma and a quote in its note.
C16_Witness ==
    /\ ExportByAdmin
    /\ Len(last.eff.docs) = 1
    /\ Len(CsvParse(last.eff.docs[1].content)) = 3
    /\ \E r \in last.before :
           r.chat_id = last.chat /\ Has(r.note, Comma) /\ Has(r.note, Quote)

====
